---- MODULE Spec2Model ----
(***************************************************************************)
(* Model of src/index.js: the print-and-play tile extractor.               *)
(*                                                                         *)
(* The script lists ./maps recursively, sorts the file paths, decodes     *)
(* every image into a 7x5 grid of 4x8-pixel tiles, builds the tile         *)
(* catalog (digest -> tile, per-map maximum count), issues the count       *)
(* report and the tile images, and walks the catalog to produce the        *)
(* reveal-rule text.                                                       *)
(*                                                                         *)
(* JavaScript arrays are 0-based; sequences here are 1-based, so every     *)
(* JavaScript index k is read through At(seq, k) = seq[k + 1], which is    *)
(* UNDEFINED outside the array, as in JavaScript.                          *)
(***************************************************************************)
EXTENDS Integers, Sequences, FiniteSets, TLC

VARIABLES
    tree,            \* input: directory path -> sequence of entry names (readdir order)
    image,           \* input: file path -> descriptor of the image stored there
    pc,              \* position of the top-level script
    dirList,         \* recursiveList: directories of the level being listed
    readdirPending,  \* recursiveList: indexes (0-based) of dirList whose readdir is in flight
    statPending,     \* recursiveList: paths whose stat is in flight
    fileList,        \* recursiveList: files found so far, in completion order
    allMapPaths,     \* line 144
    promises,        \* line 145: the readMap promises handed to Promise.all
    maps,            \* line 145: what the await yields
    tilesDict,       \* line 155
    hashCount,       \* line 159
    mapsWithTileHash,    \* line 274
    tileHashToPositions, \* line 279: id -> entries <<mapId, positions>> in key order
    written,         \* output artifacts whose write has been issued
    order,           \* lines 296-301: catalog ids in rule order
    cursor,          \* rule generation: [t, m, p] indexes (0-based) of tile, map entry, position
    tab,             \* line 309
    revealRulesText, \* line 295: the lines appended so far
    pathsOut,        \* result of the last getTilePaths call of the probe harness
    exitOut          \* result of the last tileHasExit call of the probe harness

vars == <<tree, image, pc, dirList, readdirPending, statPending, fileList,
          allMapPaths, promises, maps, tilesDict, hashCount, mapsWithTileHash,
          tileHashToPositions, written, order, cursor,
          tab, revealRulesText, pathsOut, exitOut>>

-----------------------------------------------------------------------------
(* JavaScript values *)

UNDEFINED == "undefined"

\* array[k] for a 0-based k
At(seq, k) == IF k + 1 \in DOMAIN seq THEN seq[k + 1] ELSE UNDEFINED

\* 0-based indexes of an array
Indexes(seq) == 0 .. (Len(seq) - 1)

\* the array a constructor describes, with its elements evaluated once
Array(seq) == SubSeq(seq, 1, Len(seq))

-----------------------------------------------------------------------------
(* Pixel states and colours, lines 7-32 *)

NOTHING == "0"
WALL == "1"
PATH == "2"
START == "3"

STATE_ENUM == {NOTHING, WALL, PATH, START}

QuadNothing == <<65, 64, 64, 255>>
QuadWall == <<0, 0, 0, 255>>
QuadPath == <<255, 0, 0, 255>>
QuadStart == <<255, 255, 255, 255>>
\* a colour outside the accepted four
QuadUnknown == <<0, 255, 0, 255>>

RGBA_TO_STATE ==
    (QuadNothing :> NOTHING) @@ (QuadWall :> WALL) @@
    (QuadPath :> PATH) @@ (QuadStart :> START)

STATE_TO_RGBA ==
    [s \in STATE_ENUM |-> CHOOSE q \in DOMAIN RGBA_TO_STATE : RGBA_TO_STATE[q] = s]

\* stateToRgba: THROWN for a state with no colour (line 30)
THROWN == "thrown"
stateToRgba(state) ==
    IF state \in DOMAIN STATE_TO_RGBA THEN STATE_TO_RGBA[state] ELSE <<THROWN>>

-----------------------------------------------------------------------------
(* Map geometry, lines 100-107 *)

MAP_HEIGHT_IN_TILES == 7
MAP_WIDTH_IN_TILES == 5
TILE_HEIGHT_IN_PIXELS == 4
TILE_WIDTH_IN_PIXELS == 8
MAP_WIDTH_IN_PIXELS == TILE_WIDTH_IN_PIXELS * MAP_WIDTH_IN_TILES
TILES_PER_MAP == MAP_HEIGHT_IN_TILES * MAP_WIDTH_IN_TILES

-----------------------------------------------------------------------------
(* Tiles and images: the inputs of a run *)

\* a tile as readMap builds it: TILE_HEIGHT_IN_PIXELS rows of TILE_WIDTH_IN_PIXELS states
FilledTile(s) ==
    [a \in 1 .. TILE_HEIGHT_IN_PIXELS |-> [b \in 1 .. TILE_WIDTH_IN_PIXELS |-> s]]

\* the tile with state s at row i, column j (0-based) of tile t
WithPixel(t, i, j, s) == [t EXCEPT ![i + 1][j + 1] = s]

\* The contents whose digests are the two reserved ids.  HMAC cannot be
\* inverted, so the model fixes them: the fully empty tile, and a walled
\* tile holding the start marker.
EmptyTile == FilledTile(NOTHING)
StartTile == WithPixel(WithPixel(FilledTile(WALL), 1, 3, START), 1, 4, START)

\* The pixels the connectivity probes read, as <<row, column>> (0-based):
\* the six CONNECTIONS entries and the pixel of line 271.
ProbePixels ==
    << <<0, 1>>, <<0, 5>>, <<2, 0>>, <<2, 7>>, <<3, 1>>, <<3, 5>>, <<1, 3>> >>

\* the tile filled with `fill` whose probe pixel k holds states[k]
ProbeTile(fill, states) ==
    [a \in 1 .. TILE_HEIGHT_IN_PIXELS |-> [b \in 1 .. TILE_WIDTH_IN_PIXELS |->
        IF \E k \in DOMAIN ProbePixels : ProbePixels[k] = <<a - 1, b - 1>>
        THEN states[CHOOSE k \in DOMAIN ProbePixels : ProbePixels[k] = <<a - 1, b - 1>>]
        ELSE fill]]

\* a walled tile whose probe pixels in `open` (indexes of ProbePixels) are PATH
Walled(open) ==
    ProbeTile(WALL, [k \in DOMAIN ProbePixels |-> IF k \in open THEN PATH ELSE WALL])

\* An image on disk: a w x h picture showing `grid` (row -> column -> tile,
\* 0-based through At) from its top-left corner, NOTHING beyond the grid, with
\* the colour of pixel `bad` (0-based, -1 for none) outside the accepted four.
\* bitmap.data is the RGBA byte array of the picture, row-major, which always
\* holds RGBA_SIZE bytes per pixel; it is kept here as the sequence of its
\* pixels' RGBA quads, the slices rgbaArray.slice(i, i + RGBA_SIZE) of line 72.
PixelOfGrid(grid, x, y) ==
    LET row == y \div TILE_HEIGHT_IN_PIXELS
        col == x \div TILE_WIDTH_IN_PIXELS
    IN  IF row < MAP_HEIGHT_IN_TILES /\ col < MAP_WIDTH_IN_TILES
        THEN grid[row + 1][col + 1][(y % TILE_HEIGHT_IN_PIXELS) + 1][(x % TILE_WIDTH_IN_PIXELS) + 1]
        ELSE NOTHING

BitmapData(img) ==
    Array([p1 \in 1 .. (img.w * img.h) |->
        IF p1 - 1 = img.bad
        THEN QuadUnknown
        ELSE STATE_TO_RGBA[PixelOfGrid(img.grid, (p1 - 1) % img.w, (p1 - 1) \div img.w)]])

-----------------------------------------------------------------------------
(* readComponent, lines 65-93 *)

\* a switch whose default case would yield NOTHING instead of throwing
PixelCase_DefaultNothing(pixelArray) ==
    IF pixelArray \in DOMAIN RGBA_TO_STATE THEN RGBA_TO_STATE[pixelArray] ELSE NOTHING

\* the switch of lines 74-89 on one pixel: its state, or THROWN
PixelCase(pixelArray) ==
    IF pixelArray \in DOMAIN RGBA_TO_STATE THEN RGBA_TO_STATE[pixelArray] ELSE THROWN

\* the pixels pushed; thrown when some pixel hits the default case
readComponent(data) ==
    LET n == Len(data)
        pixels == Array([k \in 1 .. n |-> PixelCase(data[k])])
    IN  IF \E k \in 1 .. n : pixels[k] = THROWN
        THEN [thrown |-> TRUE, pixels |-> <<>>]
        ELSE [thrown |-> FALSE, pixels |-> pixels]

-----------------------------------------------------------------------------
(* readMap, lines 109-133 *)

\* mapParsed, with every pixel read through mapPixels[pixelIndex]
MapParsed(mapPixels) ==
             [i1 \in 1 .. MAP_HEIGHT_IN_TILES |-> [j1 \in 1 .. MAP_WIDTH_IN_TILES |->
                LET topLeftTilePixelIndex ==
                        ((i1 - 1) * MAP_WIDTH_IN_PIXELS * TILE_HEIGHT_IN_PIXELS)
                        + ((j1 - 1) * TILE_WIDTH_IN_PIXELS)
                IN  [a1 \in 1 .. TILE_HEIGHT_IN_PIXELS |-> [b1 \in 1 .. TILE_WIDTH_IN_PIXELS |->
                        At(mapPixels,
                           topLeftTilePixelIndex + ((a1 - 1) * MAP_WIDTH_IN_PIXELS) + (b1 - 1))]]]]

readMap(data) ==
    LET component == readComponent(data)
    IN  IF component.thrown
        THEN [thrown |-> TRUE, map |-> <<>>]
        ELSE [thrown |-> FALSE, map |-> MapParsed(component.pixels)]

-----------------------------------------------------------------------------
(* flat, lines 135-141, and createHash, lines 56-63 *)

RECURSIVE Concat(_)
Concat(seqs) == IF seqs = <<>> THEN <<>> ELSE Head(seqs) \o Concat(Tail(seqs))

RECURSIVE flat(_, _)
flat(source, level) == IF level = 0 THEN source ELSE flat(Concat(source), level - 1)

\* pixels.join(''): every state is one character and undefined joins as ''
Defined(pixel) == pixel # UNDEFINED
join(pixels) == SelectSeq(pixels, Defined)

EMPTY_TILE_HASH == <<"f", "2", "d", "6", "7", "5", "f", "2">>
START_TILE_HASH == <<"f", "4", "2", "0", "e", "d", "8", "7">>

\* createHash: the first 8 hex digits of the HMAC-SHA256 of the input.  The
\* digest is modelled as collision-free: the two reserved ids are the digests
\* of the two reserved contents and every other input keeps a digest of its
\* own, which is never one of the reserved ids.
EmptyInput == join(flat(EmptyTile, 1))
StartInput == join(flat(StartTile, 1))
createHash(input) ==
    IF input = EmptyInput THEN EMPTY_TILE_HASH
    ELSE IF input = StartInput THEN START_TILE_HASH
    ELSE <<"#">> \o input

\* createHash(flat(tile, 2).join('')) of lines 151-152, 276 and 283.  flat(tile, 2)
\* flattens the rows and then the one-character states, which changes nothing.
hashOfTile(tile) == createHash(join(flat(tile, 1)))

-----------------------------------------------------------------------------
(* Connectivity, lines 227-272 *)

\* tile[i][j] of a tile matrix
TilePixel(tile, i, j) == At(At(tile, i), j)

\* CONNECTIONS of getTilePaths, lines 232-236: <<j, i, d>>
PATH_CONNECTIONS ==
    << <<1, 0, "n">>, <<5, 0, "n">>,
       <<0, 2, "e">>, <<7, 2, "w">>,
       <<1, 3, "s">>, <<5, 3, "s">> >>

\* CONNECTIONS of tileHasExit, lines 251-255: <<j, i, d>>
EXIT_CONNECTIONS ==
    << <<1, 0, "ne">>, <<5, 0, "nw">>,
       <<0, 2, "e">>, <<7, 2, "w">>,
       <<1, 3, "se">>, <<5, 3, "sw">> >>

\* the keys of pathDict after the forEach of lines 239-243 and 258-262
PathDict(tile, connections) ==
    {connections[k][3] : k \in {c \in DOMAIN connections :
        TilePixel(tile, connections[c][2], connections[c][1]) = PATH}}

\* getTilePaths had it keyed the left edge as w and the right edge as e
getTilePaths_LabelsByEdge(tileHash) ==
    IF tileHash = START_TILE_HASH THEN {"n", "w", "s", "e"}
    ELSE PathDict(tilesDict[tileHash],
                  << <<1, 0, "n">>, <<5, 0, "n">>,
                     <<0, 2, "w">>, <<7, 2, "e">>,
                     <<1, 3, "s">>, <<5, 3, "s">> >>)

\* the keys of the object getTilePaths returns
getTilePaths(tileHash) ==
    IF tileHash = START_TILE_HASH THEN {"n", "w", "s", "e"}
    ELSE PathDict(tilesDict[tileHash], PATH_CONNECTIONS)

\* path.includes(letter) for the labels of EXIT_CONNECTIONS
Includes(label, letter) ==
    CASE label = "ne" -> letter \in {"n", "e"}
      [] label = "nw" -> letter \in {"n", "w"}
      [] label = "se" -> letter \in {"s", "e"}
      [] label = "sw" -> letter \in {"s", "w"}
      [] OTHER -> letter = label

\* tileHasExit had its first test been paths.length >= 2
tileHasExit_TwoIsJunction(tileHash) ==
    IF tileHash = START_TILE_HASH THEN TRUE
    ELSE LET tile == tilesDict[tileHash]
             paths == PathDict(tile, EXIT_CONNECTIONS)
         IN  IF Cardinality(paths) >= 2 THEN TRUE
             ELSE IF Cardinality(paths) = 1 THEN FALSE
             ELSE IF \A path \in paths : Includes(path, "n") THEN FALSE
             ELSE IF \A path \in paths : Includes(path, "s") THEN FALSE
             ELSE IF \A path \in paths : Includes(path, "e") THEN TRUE
             ELSE IF \A path \in paths : Includes(path, "w") THEN TRUE
             ELSE TilePixel(tile, 1, 3) = PATH

tileHasExit(tileHash) ==
    IF tileHash = START_TILE_HASH THEN TRUE
    ELSE LET tile == tilesDict[tileHash]
             paths == PathDict(tile, EXIT_CONNECTIONS)
         IN  IF Cardinality(paths) > 2 THEN TRUE
             ELSE IF Cardinality(paths) = 1 THEN FALSE
             ELSE IF \A path \in paths : Includes(path, "n") THEN FALSE
             ELSE IF \A path \in paths : Includes(path, "s") THEN FALSE
             ELSE IF \A path \in paths : Includes(path, "e") THEN TRUE
             ELSE IF \A path \in paths : Includes(path, "w") THEN TRUE
             ELSE TilePixel(tile, 1, 3) = PATH

-----------------------------------------------------------------------------
(* Paths and ordering *)

\* Paths and names are sequences of UTF-16 code units: "/" is 47, "m" is 109.
Root == <<47, 109>>
SubName == <<100>>

\* resolve(dir, relativePath), line 42
resolve(dir, relativePath) == dir \o <<47>> \o relativePath

\* the code unit of a character of a tile id
Code(ch) ==
    CASE ch = "#" -> 35
      [] ch = "0" -> 48 [] ch = "1" -> 49 [] ch = "2" -> 50 [] ch = "3" -> 51
      [] ch = "4" -> 52 [] ch = "5" -> 53 [] ch = "6" -> 54 [] ch = "7" -> 55
      [] ch = "8" -> 56 [] ch = "9" -> 57
      [] ch = "a" -> 97 [] ch = "b" -> 98 [] ch = "c" -> 99
      [] ch = "d" -> 100 [] ch = "e" -> 101 [] ch = "f" -> 102

Codes(id) == [k \in DOMAIN id |-> Code(id[k])]

\* a < b for two strings given as code units: JavaScript's string comparison
RECURSIVE LexLess(_, _)
LexLess(a, b) ==
    IF b = <<>> THEN FALSE
    ELSE IF a = <<>> THEN TRUE
    ELSE IF Head(a) # Head(b) THEN Head(a) < Head(b)
    ELSE LexLess(Tail(a), Tail(b))

\* insert x into the ascending sequence seq, after the elements not above it
RECURSIVE Insert(_, _)
Insert(seq, x) ==
    IF seq = <<>> THEN <<x>>
    ELSE IF LexLess(x, Head(seq)) THEN <<x>> \o seq
    ELSE <<Head(seq)>> \o Insert(Tail(seq), x)

RECURSIVE SortPaths(_)
SortPaths(seq) ==
    IF seq = <<>> THEN <<>> ELSE Insert(SortPaths(SubSeq(seq, 1, Len(seq) - 1)), seq[Len(seq)])

\* the list left in completion order
sort_Unsorted(seq) == seq

\* Array.prototype.sort() of line 144: ascending by code units, stable
sort(seq) == SortPaths(seq)

-----------------------------------------------------------------------------
(* The inputs of a run: a directory tree of map images *)

\* at most MaxMaps image files
MaxMaps == 2

\* the columns of the two cells a picture may fill; the rest of the grid is empty
SlotCols == <<3, 4>>

\* what the two cells of a picture hold: E the empty tile, S the start tile,
\* T the run's other tile
MapLayouts == {<<"E", "E">>, <<"S", "T">>, <<"T", "S">>, <<"T", "T">>}

\* What a run's pictures are drawn with: the tile T and the row of the two
\* cells.  T is open on its right and top edges, or on its left and top edges.
Variants ==
    { [tile |-> Walled({2, 4}), row |-> 3],
      [tile |-> Walled({1, 3}), row |-> 3],
      [tile |-> Walled({2, 4}), row |-> 0] }

\* what may be wrong with the first image: one pixel of an unknown colour, or
\* a picture one pixel narrower than a map
DefectKinds == {"bad", "narrow"}

FileName(k) == <<109 - k>>
InSub(k) == k % 2 = 0
FilePath(k) == IF InSub(k) THEN resolve(resolve(Root, SubName), FileName(k))
               ELSE resolve(Root, FileName(k))

RECURSIVE NamesWhere(_, _)
NamesWhere(n, sub) ==
    IF n = 0 THEN <<>>
    ELSE NamesWhere(n - 1, sub) \o (IF InSub(n) = sub THEN <<FileName(n)>> ELSE <<>>)

TreeOf(n) ==
    (Root :> (NamesWhere(n, FALSE) \o <<SubName>>)) @@
    (resolve(Root, SubName) :> NamesWhere(n, TRUE))

TileNamed(name, variant) ==
    CASE name = "S" -> StartTile
      [] name = "T" -> variant.tile
      [] OTHER -> EmptyTile

\* the 7x5 tile grid a picture shows
GridOf(img) ==
    Array([r \in 1 .. MAP_HEIGHT_IN_TILES |-> Array([c \in 1 .. MAP_WIDTH_IN_TILES |->
        IF r - 1 = img.variant.row /\ \E k \in DOMAIN SlotCols : SlotCols[k] = c - 1
        THEN TileNamed(img.slots[CHOOSE k \in DOMAIN SlotCols : SlotCols[k] = c - 1],
                       img.variant)
        ELSE EmptyTile])])

\* bitmap.data of the image Jimp.read(path) yields, line 66
BitmapOf(img) ==
    LET w == IF img.defect = "narrow" THEN MAP_WIDTH_IN_PIXELS - 1 ELSE MAP_WIDTH_IN_PIXELS
        h == MAP_HEIGHT_IN_TILES * TILE_HEIGHT_IN_PIXELS
    IN  BitmapData([grid |-> GridOf(img), w |-> w, h |-> h,
                    bad |-> IF img.defect = "bad" THEN (w * h) - 1 ELSE -1])

\* the runs over n images: every choice of variant and layouts with sound
\* images, and one run per defect of the first image
Datasets(n) ==
    {[variant |-> v, defect |-> "none", lay |-> lay] :
        v \in Variants, lay \in [1 .. n -> MapLayouts]}
    \cup
    {[variant |-> [tile |-> Walled({2, 4}), row |-> 3], defect |-> d,
      lay |-> [k \in 1 .. n |-> <<"S", "T">>]] : d \in DefectKinds}

ImagesOf(n, ds) ==
    [p \in {FilePath(k) : k \in 1 .. n} |->
        LET k == CHOOSE k \in 1 .. n : FilePath(k) = p
        IN  [slots |-> ds.lay[k], variant |-> ds.variant,
             defect |-> IF k = 1 THEN ds.defect ELSE "none"]]

-----------------------------------------------------------------------------
(* The run *)

Idle ==
    /\ dirList = <<>> /\ readdirPending = {} /\ statPending = {} /\ fileList = <<>>
    /\ allMapPaths = <<>> /\ promises = <<>> /\ maps = <<>>
    /\ hashCount = <<>> /\ mapsWithTileHash = <<>> /\ tileHashToPositions = <<>>
    /\ written = {} /\ order = <<>> /\ cursor = [t |-> 0, m |-> 0, p |-> 0]
    /\ tab = 0 /\ revealRulesText = <<>>
    /\ pathsOut = [called |-> FALSE, keys |-> {}]
    /\ exitOut = [called |-> FALSE, value |-> FALSE]

\* line 144: recursiveList('./maps') is called and its first readdir is in flight
Init ==
    /\ \E n \in 0 .. MaxMaps : \E ds \in Datasets(n) :
          /\ tree = TreeOf(n)
          /\ image = ImagesOf(n, ds)
    /\ pc = "list"
    /\ dirList = <<Root>>
    /\ readdirPending = {0}
    /\ statPending = {}
    /\ fileList = <<>>
    /\ allMapPaths = <<>>
    /\ promises = <<>>
    /\ maps = <<>>
    /\ tilesDict = <<>>
    /\ hashCount = <<>>
    /\ mapsWithTileHash = <<>>
    /\ tileHashToPositions = <<>>
    /\ written = {}
    /\ order = <<>>
    /\ cursor = [t |-> 0, m |-> 0, p |-> 0]
    /\ tab = 0
    /\ revealRulesText = <<>>
    /\ pathsOut = [called |-> FALSE, keys |-> {}]
    /\ exitOut = [called |-> FALSE, value |-> FALSE]

listVars == <<dirList, readdirPending, statPending, fileList>>
catalogVars == <<tilesDict, hashCount, mapsWithTileHash, tileHashToPositions>>
ruleVars == <<order, cursor, tab, revealRulesText>>
probeVars == <<pathsOut, exitOut>>

\* stats.isDirectory(), line 44
isDirectory(path) == path \in DOMAIN tree

\* lines 40-43: readdir(dir) resolves and a stat is issued for every entry
ReaddirDone(d) ==
    /\ pc = "list"
    /\ d \in readdirPending
    /\ readdirPending' = readdirPending \ {d}
    /\ statPending' = statPending \cup
          {resolve(At(dirList, d), rel) : rel \in {tree[At(dirList, d)][k] : k \in DOMAIN tree[At(dirList, d)]}}
    /\ UNCHANGED <<tree, image, pc, dirList, fileList, allMapPaths, promises, maps, written>>
    /\ UNCHANGED <<catalogVars, ruleVars, probeVars>>

\* lines 43-48: a stat resolves; a file is pushed, a directory is returned
StatDone(path) ==
    /\ pc = "list"
    /\ path \in statPending
    /\ statPending' = statPending \ {path}
    /\ fileList' = IF isDirectory(path) THEN fileList ELSE Append(fileList, path)
    /\ UNCHANGED <<tree, image, pc, dirList, readdirPending, allMapPaths, promises, maps, written>>
    /\ UNCHANGED <<catalogVars, ruleVars, probeVars>>

\* lines 39-50: what the two Promise.all yield once every callback has resolved:
\* the directories found, by position (directory by directory, entry by entry)
RECURSIVE DirsIn(_, _)
DirsIn(dir, names) ==
    IF names = <<>> THEN <<>>
    ELSE (IF isDirectory(resolve(dir, Head(names))) THEN <<resolve(dir, Head(names))>> ELSE <<>>)
         \o DirsIn(dir, Tail(names))

FoundDirs == Concat([k \in DOMAIN dirList |-> DirsIn(dirList[k], tree[dirList[k]])])

LevelSettled == pc = "list" /\ readdirPending = {} /\ statPending = {}

\* line 38: another level of directories is listed
NextLevel ==
    /\ LevelSettled
    /\ FoundDirs # <<>>
    /\ dirList' = FoundDirs
    /\ readdirPending' = Indexes(FoundDirs)
    /\ UNCHANGED <<tree, image, pc, statPending, fileList, allMapPaths, promises, maps, written>>
    /\ UNCHANGED <<catalogVars, ruleVars, probeVars>>

\* lines 53 and 144-145: the list is returned and sorted, and every map is read
ListDone ==
    /\ LevelSettled
    /\ FoundDirs = <<>>
    /\ dirList' = <<>>
    /\ allMapPaths' = sort(fileList)
    /\ promises' = [k \in DOMAIN fileList |-> [state |-> "pending", map |-> <<>>]]
    /\ pc' = "decode"
    /\ UNCHANGED <<tree, image, readdirPending, statPending, fileList, maps, written>>
    /\ UNCHANGED <<catalogVars, ruleVars, probeVars>>

\* lines 109-133: readMap(allMapPaths[k]) settles; a rejection rejects the
\* Promise.all of line 145, the top-level await throws and the run ends
DecodeDone(k) ==
    /\ pc = "decode"
    /\ k \in Indexes(promises)
    /\ At(promises, k).state = "pending"
    /\ LET result == readMap(BitmapOf(image[At(allMapPaths, k)]))
       IN  /\ promises' = [promises EXCEPT ![k + 1] =
                  [state |-> IF result.thrown THEN "rejected" ELSE "resolved",
                   map |-> result.map]]
           /\ pc' = IF result.thrown THEN "failed" ELSE pc
    /\ UNCHANGED <<tree, image, listVars, allMapPaths, maps, written>>
    /\ UNCHANGED <<catalogVars, ruleVars, probeVars>>

\* line 145: every readMap has resolved and the await yields the maps, by
\* position; the array of promises is a temporary and is dropped
AllDecoded ==
    /\ pc = "decode"
    /\ \A k \in DOMAIN promises : promises[k].state = "resolved"
    /\ maps' = [k \in DOMAIN promises |-> promises[k].map]
    /\ promises' = <<>>
    /\ pc' = "extract"
    /\ UNCHANGED <<tree, image, listVars, allMapPaths, written>>
    /\ UNCHANGED <<catalogVars, ruleVars, probeVars>>

-----------------------------------------------------------------------------
(* The catalog, lines 146-223 *)

\* line 146
tiles == flat(maps, 2)

\* lines 150-154: <<hash, tile>> of every tile, map by map and row by row
hashAndTileList ==
    LET all == tiles
    IN  Array([k \in DOMAIN all |-> <<hashOfTile(all[k]), all[k]>>])

\* Object.fromEntries(hashAndTileList): the last tile of every hash
fromEntries(list) ==
    [h \in {list[k][1] : k \in DOMAIN list} |->
        list[CHOOSE k \in DOMAIN list :
                /\ list[k][1] = h
                /\ \A k2 \in DOMAIN list : list[k2][1] = h => k2 <= k][2]]

\* lines 146-155
ExtractTiles ==
    /\ pc = "extract"
    /\ LET list == hashAndTileList
       IN  tilesDict' = fromEntries(list)
    /\ pc' = "count"
    /\ UNCHANGED <<tree, image, listVars, allMapPaths, promises, maps, written>>
    /\ UNCHANGED <<hashCount, mapsWithTileHash, tileHashToPositions, ruleVars, probeVars>>

\* lines 160-166: one counter per map, incremented for the tiles i with
\* Math.floor(i / TILES_PER_MAP) = q
hashCounts(list) ==
    Array([q1 \in DOMAIN maps |->
        [h \in DOMAIN tilesDict |->
            Cardinality({i \in Indexes(list) :
                /\ i \div TILES_PER_MAP = q1 - 1
                /\ At(list, i)[1] = h})]])

RECURSIVE SumOf(_)
SumOf(counts) == IF counts = <<>> THEN 0 ELSE Head(counts) + SumOf(Tail(counts))

\* the sum of the counts, in place of their maximum
MathMax_Sum(counts) == SumOf(counts)

\* Math.max(...counts) over at least one count
MathMax(counts) ==
    CHOOSE c \in {counts[k] : k \in DOMAIN counts} : \A k \in DOMAIN counts : counts[k] <= c

\* lines 158-179: the counts, and the count report is issued
CountTiles ==
    /\ pc = "count"
    /\ LET counters == hashCounts(hashAndTileList)
       IN  hashCount' = [h \in DOMAIN tilesDict |->
                            MathMax([q1 \in DOMAIN counters |-> counters[q1][h]])]
    /\ written' = written \cup {<<"tile-count.txt", <<>>>>}
    /\ pc' = "export"
    /\ UNCHANGED <<tree, image, listVars, allMapPaths, promises, maps>>
    /\ UNCHANGED <<tilesDict, mapsWithTileHash, tileHashToPositions, ruleVars, probeVars>>

\* lines 187-193: stateToRgba throws on a pixel that is no state, and the
\* async callback rejects before its image is written
Exportable(tileMatrix) ==
    \A a \in DOMAIN tileMatrix : \A b \in DOMAIN tileMatrix[a] :
        stateToRgba(tileMatrix[a][b]) # <<THROWN>>

\* lines 183-223: the two images of every tile but the empty one are issued
ExportTiles ==
    /\ pc = "export"
    /\ written' = written \cup
          {<<dir, h>> : dir \in {"unique-tiles", "unique-tilesx100"},
                        h \in {t \in DOMAIN tilesDict :
                                  t # EMPTY_TILE_HASH /\ Exportable(tilesDict[t])}}
    /\ pc' = "index"
    /\ UNCHANGED <<tree, image, listVars, allMapPaths, promises, maps>>
    /\ UNCHANGED <<catalogVars, ruleVars, probeVars>>

-----------------------------------------------------------------------------
(* The rule text, lines 274-356 *)

\* the cells of a map in the order of the forEach of lines 281-282: {i, j}
\* with column i and row j, row by row
Cells ==
    [k \in 1 .. TILES_PER_MAP |->
        [i |-> (k - 1) % MAP_WIDTH_IN_TILES, j |-> (k - 1) \div MAP_WIDTH_IN_TILES]]

\* lines 274-278
MapsWithTileHash ==
    Array([m1 \in DOMAIN maps |-> Array([r \in DOMAIN maps[m1] |->
        Array([c \in DOMAIN maps[m1][r] |-> hashOfTile(maps[m1][r][c])])])])

\* lines 279-293: the entries of tileHashToPositions[hash], a <<mapId, positions>>
\* per map holding the hash, in ascending mapId (the key order of an object
\* whose keys are array indexes)
PositionsByMap(mwth, hash) ==
    LET positionsIn(m1) ==
            LET Here(cell) == mwth[m1][cell.j + 1][cell.i + 1] = hash
            IN  SelectSeq(Cells, Here)
        NonEmpty(entry) == entry[2] # <<>>
    IN  SelectSeq([m1 \in DOMAIN mwth |-> <<m1 - 1, positionsIn(m1)>>], NonEmpty)

\* the comparator of lines 297-301 returns a negative number
Before(a, b) ==
    IF a = START_TILE_HASH THEN TRUE
    ELSE IF b = START_TILE_HASH THEN FALSE
    ELSE ~LexLess(Codes(b), Codes(a))

\* lines 296-301: the keys sorted by the comparator, which orders distinct keys totally
RECURSIVE SortedKeys(_)
SortedKeys(keys) ==
    IF keys = {} THEN <<>>
    ELSE LET first == CHOOSE a \in keys : \A b \in keys \ {a} : Before(a, b)
         IN  <<first>> \o SortedKeys(keys \ {first})

\* line 294
boardOrigin == [i |-> 2, j |-> 3]

\* lines 274-301
IndexTiles ==
    /\ pc = "index"
    /\ LET mwth == MapsWithTileHash
       IN  /\ mapsWithTileHash' = mwth
           /\ tileHashToPositions' =
                  [h \in DOMAIN tilesDict |-> PositionsByMap(mwth, h)]
    /\ order' = SortedKeys(DOMAIN tilesDict)
    /\ cursor' = [t |-> 0, m |-> 0, p |-> 0]
    /\ revealRulesText' = <<>>
    /\ pc' = "tile"
    /\ UNCHANGED <<tree, image, listVars, allMapPaths, promises, maps, written>>
    /\ UNCHANGED <<tilesDict, hashCount, tab, probeVars>>

\* A line of the text is [tab, text, arg]: its tabs, its wording and the id
\* or the numbers it names.

tileHash == At(order, cursor.t)
positionsByMap == tileHashToPositions[tileHash]
mapId == At(positionsByMap, cursor.m)[1]
positions == At(positionsByMap, cursor.m)[2]

\* lines 303-308: the forEach callback returns at once
TileSkip ==
    /\ pc = "tile"
    /\ cursor.t < Len(order)
    /\ tileHash = EMPTY_TILE_HASH \/ ~tileHasExit(tileHash)
    /\ cursor' = [cursor EXCEPT !.t = cursor.t + 1]
    /\ UNCHANGED <<tree, image, pc, listVars, allMapPaths, promises, maps, written>>
    /\ UNCHANGED <<catalogVars, order, tab, revealRulesText, probeVars>>

\* lines 309-314: the heading of a narrated tile
TileBegin ==
    /\ pc = "tile"
    /\ cursor.t < Len(order)
    /\ tileHash # EMPTY_TILE_HASH
    /\ tileHasExit(tileHash)
    /\ tab' = 0
    /\ revealRulesText' = Append(revealRulesText,
          IF tileHash = START_TILE_HASH
          THEN [tab |-> 0, text |-> "Do ponto de partida", arg |-> <<>>]
          ELSE [tab |-> 0, text |-> "Peca", arg |-> tileHash])
    /\ cursor' = [cursor EXCEPT !.m = 0]
    /\ pc' = "map"
    /\ UNCHANGED <<tree, image, listVars, allMapPaths, promises, maps, written>>
    /\ UNCHANGED <<catalogVars, order, probeVars>>

\* lines 316-320: the mission sub-heading
MapBegin ==
    /\ pc = "map"
    /\ cursor.m < Len(positionsByMap)
    /\ IF Len(positionsByMap) > 1
       THEN /\ tab' = tab + 1
            /\ revealRulesText' = Append(revealRulesText,
                  [tab |-> tab + 1, text |-> "Jogando missao", arg |-> <<mapId + 1>>])
       ELSE UNCHANGED <<tab, revealRulesText>>
    /\ cursor' = [cursor EXCEPT !.p = 0]
    /\ pc' = "position"
    /\ UNCHANGED <<tree, image, listVars, allMapPaths, promises, maps, written>>
    /\ UNCHANGED <<catalogVars, order, probeVars>>

\* String(undefined), which a template literal prints for a missing neighbour
UndefinedId == <<UNDEFINED>>

\* the four checks of lines 330-345: <<key of tilePaths, wording, row offset, column offset>>
REVEALS ==
    << <<"n", "Ao norte", -1, 0>>, <<"w", "Ao leste", 0, 1>>,
       <<"s", "Ao sul", 1, 0>>, <<"e", "Ao oeste", 0, -1>> >>

\* mapsWithTileHash[mapId][r][c]: a TypeError when row r is missing, and
\* undefined when only column c is
RowMissing(mId, r) == r + 1 \notin DOMAIN mapsWithTileHash[mId + 1]
Neighbour(mId, r, c) ==
    LET id == At(mapsWithTileHash[mId + 1][r + 1], c)
    IN  IF c + 1 \in DOMAIN mapsWithTileHash[mId + 1][r + 1] THEN id ELSE UndefinedId

\* lines 329-345 from check k on: the lines appended, and whether a lookup threw
RECURSIVE Reveal(_, _, _, _, _, _)
Reveal(checks, k, tilePaths, mId, pos, depth) ==
    IF k > Len(checks) THEN [lines |-> <<>>, thrown |-> FALSE]
    ELSE LET key == checks[k][1]
             r == pos.j + checks[k][3]
             c == pos.i + checks[k][4]
             rest == Reveal(checks, k + 1, tilePaths, mId, pos, depth)
         IN  IF key \notin tilePaths THEN rest
             ELSE IF RowMissing(mId, r) THEN [lines |-> <<>>, thrown |-> TRUE]
             ELSE IF Neighbour(mId, r, c) = START_TILE_HASH THEN rest
             ELSE [lines |-> <<[tab |-> depth, text |-> checks[k][2],
                                arg |-> Neighbour(mId, r, c)]>> \o rest.lines,
                   thrown |-> rest.thrown]

\* the depth had lines 347-349 been left out
TabAfterPosition_NoUnwind(depth, several) == depth - 1

\* lines 346-349: the depth after a position's lines
TabAfterPosition(depth, several) == depth - 1 - (IF several THEN 1 ELSE 0)

\* lines 321-350: one position of the tile; an uncaught TypeError ends the run
Position ==
    /\ pc = "position"
    /\ cursor.p < Len(positions)
    /\ LET pos == At(positions, cursor.p)
           several == Len(positions) > 1
           heading == IF several
                      THEN <<[tab |-> tab + 1, text |-> "Na posicao",
                              arg |-> <<pos.i - boardOrigin.i, boardOrigin.j - pos.j>>]>>
                      ELSE <<>>
           depth == tab + (IF several THEN 1 ELSE 0) + 1
           reveal == Reveal(REVEALS, 1, getTilePaths(tileHash), mapId, pos, depth)
       IN  /\ revealRulesText' = revealRulesText \o heading \o reveal.lines
           /\ IF reveal.thrown
              THEN /\ tab' = depth
                   /\ pc' = "crashed"
                   /\ UNCHANGED cursor
              ELSE /\ tab' = TabAfterPosition(depth, several)
                   /\ pc' = pc
                   /\ cursor' = [cursor EXCEPT !.p = cursor.p + 1]
    /\ UNCHANGED <<tree, image, listVars, allMapPaths, promises, maps, written>>
    /\ UNCHANGED <<catalogVars, order, probeVars>>

\* lines 351-353: the end of a map's positions
MapEnd ==
    /\ pc = "position"
    /\ cursor.p >= Len(positions)
    /\ tab' = IF Len(positionsByMap) > 1 THEN tab - 1 ELSE tab
    /\ cursor' = [cursor EXCEPT !.m = cursor.m + 1]
    /\ pc' = "map"
    /\ UNCHANGED <<tree, image, listVars, allMapPaths, promises, maps, written>>
    /\ UNCHANGED <<catalogVars, order, revealRulesText, probeVars>>

\* line 354: the end of a tile's block
TileEnd ==
    /\ pc = "map"
    /\ cursor.m >= Len(positionsByMap)
    /\ cursor' = [cursor EXCEPT !.t = cursor.t + 1]
    /\ pc' = "tile"
    /\ UNCHANGED <<tree, image, listVars, allMapPaths, promises, maps, written>>
    /\ UNCHANGED <<catalogVars, order, tab, revealRulesText, probeVars>>

\* line 356: the rule text is issued
WriteRules ==
    /\ pc = "tile"
    /\ cursor.t >= Len(order)
    /\ written' = written \cup {<<"reveal-tile.txt", <<>>>>}
    /\ pc' = "done"
    /\ UNCHANGED <<tree, image, listVars, allMapPaths, promises, maps>>
    /\ UNCHANGED <<catalogVars, ruleVars, probeVars>>

Next ==
    \/ \E d \in readdirPending : ReaddirDone(d)
    \/ \E path \in statPending : StatDone(path)
    \/ NextLevel
    \/ ListDone
    \/ \E k \in Indexes(promises) : DecodeDone(k)
    \/ AllDecoded
    \/ ExtractTiles
    \/ CountTiles
    \/ ExportTiles
    \/ IndexTiles
    \/ TileSkip
    \/ TileBegin
    \/ MapBegin
    \/ Position
    \/ MapEnd
    \/ TileEnd
    \/ WriteRules

Spec == Init /\ [][Next]_vars

-----------------------------------------------------------------------------
(* The connectivity functions on their own: getTilePaths and tileHasExit are
   called on a catalog holding one tile *)

\* the states a probed pixel takes, and the states the other pixels are filled with
ProbeStates == {NOTHING, WALL, PATH, START}
Fills == {WALL, PATH}

ProbeTiles ==
    {ProbeTile(fill, states) : fill \in Fills, states \in [DOMAIN ProbePixels -> ProbeStates]}

InitProbe ==
    /\ \E tile \in ProbeTiles \cup {StartTile} : tilesDict = (hashOfTile(tile) :> tile)
    /\ tree = <<>>
    /\ image = <<>>
    /\ pc = "probe"
    /\ Idle

\* the one id of the catalog
probed == CHOOSE h \in DOMAIN tilesDict : TRUE

CallGetTilePaths ==
    /\ pc = "probe"
    /\ ~pathsOut.called
    /\ pathsOut' = [called |-> TRUE, keys |-> getTilePaths(probed)]
    /\ UNCHANGED <<tree, image, pc, listVars, allMapPaths, promises, maps, written>>
    /\ UNCHANGED <<catalogVars, ruleVars, exitOut>>

CallTileHasExit ==
    /\ pc = "probe"
    /\ ~exitOut.called
    /\ exitOut' = [called |-> TRUE, value |-> tileHasExit(probed)]
    /\ UNCHANGED <<tree, image, pc, listVars, allMapPaths, promises, maps, written>>
    /\ UNCHANGED <<catalogVars, ruleVars, pathsOut>>

NextProbe == CallGetTilePaths \/ CallTileHasExit

SpecProbe == InitProbe /\ [][NextProbe]_vars

-----------------------------------------------------------------------------
(* Claims about the connectivity functions, under SpecProbe *)

probedTile == tilesDict[probed]

\* the probe pixel of each label of tileHasExit, as <<row, column>>
LabelPixel(label) ==
    CASE label = "ne" -> <<0, 1>>
      [] label = "nw" -> <<0, 5>>
      [] label = "e" -> <<2, 0>>
      [] label = "w" -> <<2, 7>>
      [] label = "se" -> <<3, 1>>
      [] label = "sw" -> <<3, 5>>

\* the matched labels of the probed tile: those whose probe pixel is PATH
Matched ==
    {label \in {"ne", "nw", "e", "w", "se", "sw"} :
        probedTile[LabelPixel(label)[1] + 1][LabelPixel(label)[2] + 1] = PATH}

\* which of the six precedence rules decides a set of matched labels, 7 when none does
DecidingRule(L) ==
    IF Cardinality(L) > 2 THEN 1
    ELSE IF Cardinality(L) = 1 THEN 2
    ELSE IF L \subseteq {"ne", "nw"} THEN 3
    ELSE IF L \subseteq {"se", "sw"} THEN 4
    ELSE IF L \subseteq {"ne", "e", "se"} THEN 5
    ELSE IF L \subseteq {"nw", "w", "sw"} THEN 6
    ELSE 7

ExitCalledOnTile == pc = "probe" /\ exitOut.called /\ probed # START_TILE_HASH

\* C2: for every non-start tile, tileHasExit decides by the precedence: more
\* than 2 matched labels, true; else exactly 1, false; else all labels
\* contain n, false; else all contain s, false; else all contain e, true;
\* else all contain w, true.
C2_Precedence ==
    (ExitCalledOnTile /\ DecidingRule(Matched) # 7) =>
        (exitOut.value <=> DecidingRule(Matched) \in {1, 5, 6})

\* a tile matched on ne and se only: rules 1-4 pass it and rule 5 makes it a decision point
C2_Witness == ExitCalledOnTile /\ Matched = {"ne", "se"} /\ exitOut.value

\* C3: when none of the six rules decides, tileHasExit is true iff the pixel
\* that yields the label sw (row 3, column 5) is PATH.
C3_SouthWestProbe ==
    (ExitCalledOnTile /\ DecidingRule(Matched) = 7) =>
        (exitOut.value <=> probedTile[3 + 1][5 + 1] = PATH)

PathsCalledOnTile == pc = "probe" /\ pathsOut.called /\ probed # START_TILE_HASH

\* C4: for every non-start tile, getTilePaths reports north open iff one of
\* the two top-edge probes is PATH, south iff one of the two bottom-edge
\* probes is, east iff the right-edge midpoint (row 2, column 7) is, and west
\* iff the left-edge midpoint (row 2, column 0) is.
C4_OpenDirections ==
    PathsCalledOnTile =>
        /\ "n" \in pathsOut.keys <=> (probedTile[1][2] = PATH \/ probedTile[1][6] = PATH)
        /\ "s" \in pathsOut.keys <=> (probedTile[4][2] = PATH \/ probedTile[4][6] = PATH)
        /\ "e" \in pathsOut.keys <=> probedTile[3][8] = PATH
        /\ "w" \in pathsOut.keys <=> probedTile[3][1] = PATH

-----------------------------------------------------------------------------
(* Claims about the run, under Spec *)

AfterDecode == pc \in {"extract", "count", "export", "index", "tile", "map",
                       "position", "done", "crashed"}
AfterCount == AfterDecode /\ pc \notin {"extract", "count"}
AfterIndex == AfterCount /\ pc \notin {"export", "index"}

GridCells == (1 .. MAP_HEIGHT_IN_TILES) \X (1 .. MAP_WIDTH_IN_TILES)

\* how many cells of map m of a grid of TileIds hold id
TimesIn(ids, m, id) == Cardinality({cell \in GridCells : ids[m][cell[1]][cell[2]] = id})

\* C1: once the counts are recorded, the count of every TileId is the
\* maximum over the maps of the number of cells of that one map holding the
\* TileId, and every TileId of a cell has a count.
C1_MaxPerMap ==
    AfterCount =>
        LET ids == IF AfterIndex THEN mapsWithTileHash ELSE MapsWithTileHash
        IN  /\ DOMAIN hashCount =
                  {ids[m][cell[1]][cell[2]] : m \in DOMAIN ids, cell \in GridCells}
            /\ \A id \in DOMAIN hashCount :
                  /\ \E m \in DOMAIN ids : TimesIn(ids, m, id) = hashCount[id]
                  /\ \A m \in DOMAIN ids : TimesIn(ids, m, id) <= hashCount[id]

\* a tile drawn twice in one map and once in the other is counted 2, not 3
C1_Witness ==
    /\ pc = "done"
    /\ Len(maps) = 2
    /\ \E id \in DOMAIN hashCount \ {EMPTY_TILE_HASH, START_TILE_HASH} :
          /\ hashCount[id] = 2
          /\ {TimesIn(mapsWithTileHash, m, id) : m \in DOMAIN mapsWithTileHash} = {1, 2}

ExpectedPixels ==
    (MAP_WIDTH_IN_TILES * TILE_WIDTH_IN_PIXELS) * (MAP_HEIGHT_IN_TILES * TILE_HEIGHT_IN_PIXELS)

\* C5: an image whose number of pixels is not that of a 5x7 grid of 8x4
\* tiles never decodes to a Map.
C5_WrongSizeRejected ==
    \A k \in DOMAIN promises :
        promises[k].state = "resolved" =>
            Len(BitmapOf(image[allMapPaths[k]])) = ExpectedPixels

AcceptedQuads == {QuadNothing, QuadWall, QuadPath, QuadStart}

HasUnknownPixel(img) ==
    LET data == BitmapOf(img)
    IN  \E p \in DOMAIN data : data[p] \notin AcceptedQuads

\* C6: an image with a pixel outside the four accepted quads never decodes
\* (no pixel gets a default state) and its decode fails the run; a failed run
\* has written nothing, and nothing is written before every image on disk has
\* decoded.
C6_FailClosed ==
    /\ \A k \in DOMAIN promises :
          promises[k].state # "pending" =>
              (promises[k].state = "rejected" <=> HasUnknownPixel(image[allMapPaths[k]]))
    /\ (\E k \in DOMAIN promises : promises[k].state = "rejected") => pc = "failed"
    /\ pc = "failed" => written = {}
    /\ written # {} => AfterDecode /\ Len(maps) = Cardinality(DOMAIN image)
    /\ AfterDecode => \A p \in DOMAIN image : image[p].defect # "bad"

\* the decode of the image with the unknown pixel has failed the run, which has written nothing
C6_Witness ==
    /\ pc = "failed"
    /\ written = {}
    /\ \E k \in DOMAIN promises :
          promises[k].state = "rejected" /\ HasUnknownPixel(image[allMapPaths[k]])

FilesOnDisk ==
    UNION {{resolve(d, tree[d][k]) : k \in DOMAIN tree[d]} : d \in DOMAIN tree} \ DOMAIN tree

NewLines == SubSeq(revealRulesText', Len(revealRulesText) + 1, Len(revealRulesText'))

\* the steps of the rule text: a tile's heading, a map's start, one position
HeadingStep == pc = "tile" /\ pc' = "map"
MissionStep == pc = "map" /\ pc' = "position"
PositionStep == pc = "position" /\ pc' \in {"position", "crashed"}

\* the maps holding the narrated TileId, and whether the map being rendered holds it more than once
InSeveralMaps ==
    Cardinality({m \in DOMAIN mapsWithTileHash :
                    TimesIn(mapsWithTileHash, m, tileHash) > 0}) > 1
SeveralTimesHere == TimesIn(mapsWithTileHash, mapId + 1, tileHash) > 1

RevealWords == {"Ao norte", "Ao leste", "Ao sul", "Ao oeste"}

C8_Step ==
    /\ HeadingStep =>
          /\ Len(NewLines) = 1
          /\ NewLines[1].text \in {"Peca", "Do ponto de partida"}
          /\ NewLines[1].tab = 0
    /\ MissionStep =>
          IF InSeveralMaps
          THEN /\ Len(NewLines) = 1
               /\ NewLines[1].text = "Jogando missao"
               /\ NewLines[1].tab = 1
          ELSE NewLines = <<>>
    /\ PositionStep =>
          LET levels == (IF InSeveralMaps THEN 1 ELSE 0) + (IF SeveralTimesHere THEN 1 ELSE 0)
          IN  /\ SeveralTimesHere =>
                    /\ NewLines # <<>>
                    /\ NewLines[1].text = "Na posicao"
                    /\ NewLines[1].tab = 1 + (IF InSeveralMaps THEN 1 ELSE 0)
              /\ \A k \in DOMAIN NewLines :
                    IF k = 1 /\ SeveralTimesHere
                    THEN TRUE
                    ELSE /\ NewLines[k].text \in RevealWords
                         /\ NewLines[k].tab = 1 + levels
    /\ pc' = "tile" => tab' = 0

\* C8: a heading has 0 tabs; the mission line is there iff the TileId is in
\* more than one map, with 1 tab; the position line is there iff the TileId
\* is more than once in the map rendered, with 1 tab plus 1 under a mission
\* line; a reveal line has 1 tab plus 1 per sub-level above it; the depth is
\* 0 when a tile's block ends.
C8_Indentation == [][C8_Step]_vars

\* both sub-levels compose: a finished text with a mission line, a position
\* line at 2 tabs and a reveal line at 3
C8_Witness ==
    /\ pc = "done"
    /\ tab = 0
    /\ \E a, b, c \in DOMAIN revealRulesText :
          /\ a < b /\ b < c
          /\ revealRulesText[a].text = "Jogando missao" /\ revealRulesText[a].tab = 1
          /\ revealRulesText[b].text = "Na posicao" /\ revealRulesText[b].tab = 2
          /\ revealRulesText[c].text \in RevealWords /\ revealRulesText[c].tab = 3

\* the lines of a step saying to reveal with the given wording
Saying(word) == {k \in DOMAIN NewLines : NewLines[k].text = word}

\* for the occurrence a position step renders: the side's line is there iff
\* the edge pixel at column edgeCol of row 2 is PATH (or the tile is the start
\* tile) and the tile dc columns away is not the start tile, and names that tile
SideAgrees(word, edgeCol, dc) ==
    LET pos == At(positions, cursor.p)
        tile == maps[mapId + 1][pos.j + 1][pos.i + 1]
        beside == mapsWithTileHash[mapId + 1][pos.j + 1][pos.i + dc + 1]
        open == tileHash = START_TILE_HASH \/ tile[2 + 1][edgeCol + 1] = PATH
    IN  /\ Cardinality(Saying(word)) <= 1
        /\ \A k \in Saying(word) :
              open /\ beside # START_TILE_HASH /\ NewLines[k].arg = beside
        /\ (pc' = "position" /\ open /\ beside # START_TILE_HASH) => Saying(word) # {}

C9_Step ==
    (PositionStep /\ At(positions, cursor.p).i \in 1 .. (MAP_WIDTH_IN_TILES - 2)) =>
        /\ SideAgrees("Ao leste", TILE_WIDTH_IN_PIXELS - 1, 1)
        /\ SideAgrees("Ao oeste", 0, -1)

C10_NeighbourInsideGrid ==
    pc = "done" =>
        \A k \in DOMAIN revealRulesText :
            revealRulesText[k].text \in RevealWords =>
                \E m \in DOMAIN mapsWithTileHash : \E cell \in GridCells :
                    mapsWithTileHash[m][cell[1]][cell[2]] = revealRulesText[k].arg

====
